---- MODULE Spec2Model ----
(***************************************************************************)
(* Model of src/cards/stats-card.js (renderStatsCard and its helpers).     *)
(*                                                                         *)
(* renderStatsCard is a synchronous function of (stats, options).  The     *)
(* state is the argument record of one call, the position of the call      *)
(* (pc) and the values the call computes.  Init draws the arguments, the   *)
(* single action renderStatsCard runs the whole function body.             *)
(*                                                                         *)
(* Number representations                                                  *)
(*   - widths are whole pixels; the rank translation, which halves a       *)
(*     width difference, is kept doubled (rankXTranslation2 = 2 * value);  *)
(*   - line_height is a decimal number kept in tenths (255 is 25.5), so    *)
(*     that parseInt has something to truncate;                            *)
(*   - Math.PI is kept in thousandths, so arc offsets are thousandths.     *)
(***************************************************************************)
EXTENDS Integers, Sequences, FiniteSets

VARIABLES
  show,                 \* options.show (array of optional stat keys, as a set)
  hide,                 \* options.hide (array of stat keys, as a set)
  show_icons,           \* options.show_icons
  hide_rank,            \* options.hide_rank
  card_width,           \* options.card_width: [kind, val]
  include_all_commits,  \* options.include_all_commits
  line_height,          \* options.line_height, in tenths
  percentile,           \* stats.rank.percentile
  textWidth,            \* what measureText returns for the effective title
  NODE_ENV,             \* process.env.NODE_ENV
  pc,                   \* "call" | "returned" | "thrown"
  statItems,            \* the text nodes, in visual order
  labels,               \* the accessibility description entries, in order
  height,               \* card height
  width,                \* card width
  keyframes,            \* <<from, to>> stroke-dashoffset of rankAnimation, or <<>>
  rankXTranslation2     \* 2 * x translation of the rank circle

vars == <<show, hide, show_icons, hide_rank, card_width, include_all_commits,
          line_height, percentile, textWidth, NODE_ENV, pc, statItems, labels,
          height, width, keyframes, rankXTranslation2>>

inputs == <<show, hide, show_icons, hide_rank, card_width, include_all_commits,
            line_height, percentile, textWidth, NODE_ENV>>

----------------------------------------------------------------------------
(* Program constants *)

CARD_MIN_WIDTH == 287
CARD_DEFAULT_WIDTH == 287
RANK_CARD_MIN_WIDTH == 420
RANK_CARD_DEFAULT_WIDTH == 450
RANK_ONLY_CARD_MIN_WIDTH == 290
RANK_ONLY_CARD_DEFAULT_WIDTH == 290

radius == 40
MathPI1000 == 3142

----------------------------------------------------------------------------
(* Bounds of the model *)

\* Largest numeric card_width drawn.
MaxCardWidth == 520
\* Largest measured title width drawn.
MaxTextWidth == 200
\* Largest whole line_height drawn.
MaxLineHeight == 30
\* How far below 0 and above 100 the drawn percentiles go.
MaxPercentileExcess == 20

----------------------------------------------------------------------------
(* Helpers *)

Max(a, b) == IF a >= b THEN a ELSE b

\* Array.prototype.filter on a sequence, for a predicate given as a set.
RECURSIVE FilterOut(_, _)
FilterOut(s, drop) ==
  IF s = <<>> THEN <<>>
  ELSE (IF Head(s) \in drop THEN <<>> ELSE <<Head(s)>>) \o FilterOut(Tail(s), drop)

----------------------------------------------------------------------------
(* card_width values: undefined, the number NaN, a non-numeric string, or a
   number. *)

Undefined == [kind |-> "undefined", val |-> 0]
NaNValue == [kind |-> "NaN", val |-> 0]
NonNumericString == [kind |-> "string", val |-> 0]
Num(n) == [kind |-> "number", val |-> n]

\* JS truthiness of card_width (the condition of `card_width ? ... : ...`).
Truthy(v) ==
  CASE v.kind = "undefined" -> FALSE
    [] v.kind = "NaN" -> FALSE
    [] v.kind = "string" -> TRUE
    [] v.kind = "number" -> v.val # 0

\* The global isNaN applied to card_width.
isNaN(v) == v.kind # "number"

----------------------------------------------------------------------------
(* Statistic selection *)

\* Object.keys(STATS): string keys in insertion order.
STATS_keys(shw) ==
  <<"stars", "commits", "prs">>
  \o (IF "prs_merged" \in shw THEN <<"prs_merged">> ELSE <<>>)
  \o (IF "prs_merged_percentage" \in shw THEN <<"prs_merged_percentage">> ELSE <<>>)
  \o (IF "reviews" \in shw THEN <<"reviews">> ELSE <<>>)
  \o <<"issues">>
  \o (IF "discussions_started" \in shw THEN <<"discussions_started">> ELSE <<>>)
  \o (IF "discussions_answered" \in shw THEN <<"discussions_answered">> ELSE <<>>)
  \o <<"contribs">>

\* The translation key each STATS entry passes to i18n.t.
STATS_i18n(key) ==
  CASE key = "stars" -> "statcard.totalstars"
    [] key = "commits" -> "statcard.commits"
    [] key = "prs" -> "statcard.prs"
    [] key = "prs_merged" -> "statcard.prs-merged"
    [] key = "prs_merged_percentage" -> "statcard.prs-merged-percentage"
    [] key = "reviews" -> "statcard.reviews"
    [] key = "issues" -> "statcard.issues"
    [] key = "discussions_started" -> "statcard.discussions-started"
    [] key = "discussions_answered" -> "statcard.discussions-answered"
    [] key = "contribs" -> "statcard.contribs"

\* STATS[key].label: the translated text, and whether the year is appended.
STATS_label(key, iac) ==
  [text |-> STATS_i18n(key), year |-> (key = "commits" /\ ~iac)]

\* Variant: a key named in show is kept even when hide names it.
VisibleKeys_ShowWins(shw, hid) == FilterOut(STATS_keys(shw), hid \ shw)

\* Object.keys(STATS).filter((key) => !hide.includes(key))
VisibleKeys(shw, hid) == FilterOut(STATS_keys(shw), hid)

staggerDelay(index) == (index + 3) * 150

createTextNode(key, index, iac, icons) ==
  [id |-> key,
   label |-> STATS_label(key, iac),
   index |-> index,
   staggerDelay |-> staggerDelay(index),
   showIcons |-> icons]

\* Variant: the index is the key's position among all STATS keys.
StatItems_CanonicalIndex(shw, hid, iac, icons) ==
  LET all == STATS_keys(shw)
      pos(k) == CHOOSE i \in 1..Len(all) : all[i] = k
      keys == VisibleKeys(shw, hid)
  IN [i \in 1..Len(keys) |-> createTextNode(keys[i], pos(keys[i]) - 1, iac, icons)]

\* .map((key, index) => createTextNode({..., index, ...})); JS indexes from 0.
StatItems(shw, hid, iac, icons) ==
  LET keys == VisibleKeys(shw, hid)
  IN [i \in 1..Len(keys) |-> createTextNode(keys[i], i - 1, iac, icons)]

\* Variant: the labels are built from every STATS key, hidden or not.
AccessibilityLabels_Unfiltered(shw, hid, iac) ==
  LET keys == STATS_keys(shw)
  IN [i \in 1..Len(keys) |->
        IF keys[i] = "commits"
        THEN [text |-> "statcard.commits", year |-> ~iac]
        ELSE STATS_label(keys[i], iac)]

\* The accessibility labels: the commits entry is rebuilt with its own phrasing.
AccessibilityLabels(shw, hid, iac) ==
  LET keys == FilterOut(STATS_keys(shw), hid)
  IN [i \in 1..Len(keys) |->
        IF keys[i] = "commits"
        THEN [text |-> "statcard.commits", year |-> ~iac]
        ELSE STATS_label(keys[i], iac)]

\* Variant: throws whenever no row is left.
ThrowsError_NoRows(n, hr) == n = 0

\* The condition of the throw of CustomError.
ThrowsError(n, hr) == n = 0 /\ hr

----------------------------------------------------------------------------
(* Sizing *)

\* parseInt(String(x), 10) for a decimal x in tenths: sign, then the digits up
\* to the decimal point.
parseInt(x) == IF x >= 0 THEN x \div 10 ELSE -((-x) \div 10)

\* Variant: counts the rows without the title line.
CardHeight_RowsOnly(n, lheight, hr) ==
  Max(45 + n * lheight, IF hr THEN 0 ELSE IF n # 0 THEN 150 ELSE 180)

CardHeight(n, lheight, hr) ==
  Max(45 + (n + 1) * lheight, IF hr THEN 0 ELSE IF n # 0 THEN 150 ELSE 180)

iconWidth(icons, n) == IF icons /\ n # 0 THEN 16 + 1 ELSE 0

\* clampValue(number, min, Infinity) of common/utils.js
clampValue(number, min) == Max(min, number)

\* Variant: the minimum forgets the icon allowance.
minCardWidth_NoIcons(hr, n, icons, tw) ==
  IF hr THEN clampValue(50 + tw * 2, CARD_MIN_WIDTH)
  ELSE IF n # 0 THEN RANK_CARD_MIN_WIDTH
  ELSE RANK_ONLY_CARD_MIN_WIDTH

minCardWidth(hr, n, icons, tw) ==
  (IF hr THEN clampValue(50 + tw * 2, CARD_MIN_WIDTH)
   ELSE IF n # 0 THEN RANK_CARD_MIN_WIDTH
   ELSE RANK_ONLY_CARD_MIN_WIDTH) + iconWidth(icons, n)

\* Variant: the default forgets the icon allowance.
defaultCardWidth_NoIcons(hr, n, icons) ==
  IF hr THEN CARD_DEFAULT_WIDTH
  ELSE IF n # 0 THEN RANK_CARD_DEFAULT_WIDTH
  ELSE RANK_ONLY_CARD_DEFAULT_WIDTH

defaultCardWidth(hr, n, icons) ==
  (IF hr THEN CARD_DEFAULT_WIDTH
   ELSE IF n # 0 THEN RANK_CARD_DEFAULT_WIDTH
   ELSE RANK_ONLY_CARD_DEFAULT_WIDTH) + iconWidth(icons, n)

\* Variant: the resolved width is not raised to the minimum.
CardWidth_NoMinimum(cw, hr, n, icons, tw) ==
  IF Truthy(cw)
  THEN (IF isNaN(cw) THEN defaultCardWidth(hr, n, icons) ELSE cw.val)
  ELSE defaultCardWidth(hr, n, icons)

CardWidth(cw, hr, n, icons, tw) ==
  LET w == IF Truthy(cw)
           THEN (IF isNaN(cw) THEN defaultCardWidth(hr, n, icons) ELSE cw.val)
           ELSE defaultCardWidth(hr, n, icons)
  IN IF w < minCardWidth(hr, n, icons, tw) THEN minCardWidth(hr, n, icons, tw) ELSE w

----------------------------------------------------------------------------
(* Rank geometry *)

\* c = Math.PI * (radius * 2), in thousandths
circumference == MathPI1000 * (radius * 2)

\* Variant: the value is not clamped.
calculateCircleProgress_NoClamp(value) == ((100 - value) * circumference) \div 100

calculateCircleProgress(value) ==
  LET v0 == IF value < 0 THEN 0 ELSE value
      v1 == IF v0 > 100 THEN 100 ELSE v0
  IN ((100 - v1) * circumference) \div 100

\* getStyles: the keyframes of getProgressAnimation, left out under test.
ProgressAnimation(env, progress) ==
  IF env = "test" THEN <<>>
  ELSE <<calculateCircleProgress(0), calculateCircleProgress(progress)>>

\* Variant: the expansion baseline is taken at the minimum width, not at 450.
calculateRankXTranslation2_MinBaseline(n, w, iw, minW) ==
  IF n # 0
  THEN LET minXTranslation == RANK_CARD_MIN_WIDTH + iw - 70
       IN IF w > RANK_CARD_DEFAULT_WIDTH
          THEN (2 * minXTranslation + (RANK_CARD_MIN_WIDTH - minW))
               + 2 * w - 2 * RANK_CARD_DEFAULT_WIDTH
          ELSE 2 * minXTranslation + (w - minW)
  ELSE w + 2 * 20 - 2 * 10

\* calculateRankXTranslation, doubled.
calculateRankXTranslation2(n, w, iw, minW) ==
  IF n # 0
  THEN LET minXTranslation == RANK_CARD_MIN_WIDTH + iw - 70
       IN IF w > RANK_CARD_DEFAULT_WIDTH
          THEN (2 * minXTranslation + (450 - minW)) + 2 * w - 2 * RANK_CARD_DEFAULT_WIDTH
          ELSE 2 * minXTranslation + (w - minW)
  ELSE w + 2 * 20 - 2 * 10

----------------------------------------------------------------------------
(* Arguments of the call *)

\* The keys renderStatsCard tests `show` for.
OptionalKeys ==
  {"prs_merged", "prs_merged_percentage", "reviews", "discussions_started",
   "discussions_answered"}

\* Every key STATS can hold.
AllKeys == {"stars", "commits", "prs", "issues", "contribs"} \cup OptionalKeys

DefaultLineHeight == 250

Produced ==
  /\ pc = "call"
  /\ statItems = <<>>
  /\ labels = <<>>
  /\ height = 0
  /\ width = 0
  /\ keyframes = <<>>
  /\ rankXTranslation2 = 0

\* card_width: absent, NaN (what parseInt gives a non-numeric query value), a
\* non-numeric string, and numbers around every minimum and default.
CardWidths ==
  {Undefined, NaNValue, NonNumericString}
  \cup {Num(w) : w \in {-1, 0, 1, 449, 450, 451}}
  \cup {Num(w) : w \in {x \in 280..MaxCardWidth :
                          x % 10 = 0 \/ x % 10 = 7 \/ x = MaxCardWidth}}

TextWidths == {w \in 100..MaxTextWidth : w % 25 = 0 \/ w = MaxTextWidth}

\* line_height in tenths: negative, zero, fractional, and the whole numbers
\* around the default.
LineHeights ==
  {-250, -5, 0, 5, 255} \cup {10 * h : h \in 20..MaxLineHeight}

Percentiles == (0 - MaxPercentileExcess)..(100 + MaxPercentileExcess)

\* hide arrays that, with show empty or full, leave every row count 0..10.
HidePrefixes ==
  {{}, {"stars"}, {"stars", "commits"}, {"stars", "commits", "prs"},
   {"stars", "commits", "prs", "prs_merged"},
   {"stars", "commits", "prs", "prs_merged", "prs_merged_percentage"},
   AllKeys \ {"issues", "discussions_started", "discussions_answered", "contribs"},
   AllKeys \ {"discussions_started", "discussions_answered", "contribs"},
   AllKeys \ {"discussions_answered", "contribs"},
   AllKeys \ {"contribs"},
   AllKeys}

\* Every show and hide array over the known keys; the other options at their
\* defaults.
Init ==
  /\ show \in SUBSET OptionalKeys
  /\ hide \in SUBSET AllKeys
  /\ hide_rank \in BOOLEAN
  /\ include_all_commits \in BOOLEAN
  /\ show_icons = FALSE
  /\ card_width = Undefined
  /\ line_height = DefaultLineHeight
  /\ percentile = 0
  /\ textWidth = 100
  /\ NODE_ENV = "production"
  /\ Produced

\* Every width option in every mode, with in-range and out-of-range percentiles.
InitWidth ==
  /\ show \in {{}, {"reviews"}}
  /\ hide \in {{}, {"stars"}, AllKeys}
  /\ hide_rank \in BOOLEAN
  /\ include_all_commits = FALSE
  /\ show_icons \in BOOLEAN
  /\ card_width \in CardWidths
  /\ line_height = DefaultLineHeight
  /\ percentile \in {-10, 50, 150}
  /\ textWidth \in TextWidths
  /\ NODE_ENV = "production"
  /\ Produced

\* Every row count with every line height.
InitHeight ==
  /\ show \in {{}, OptionalKeys}
  /\ hide \in HidePrefixes
  /\ hide_rank \in BOOLEAN
  /\ include_all_commits = FALSE
  /\ show_icons = FALSE
  /\ card_width = Undefined
  /\ line_height \in LineHeights
  /\ percentile = 0
  /\ textWidth = 100
  /\ NODE_ENV = "production"
  /\ Produced

\* Every percentile, with and without the animation block.
InitRank ==
  /\ show = {}
  /\ hide \in {{}, AllKeys}
  /\ hide_rank \in BOOLEAN
  /\ include_all_commits = FALSE
  /\ show_icons = FALSE
  /\ card_width = Undefined
  /\ line_height = DefaultLineHeight
  /\ percentile \in Percentiles
  /\ textWidth = 100
  /\ NODE_ENV \in {"test", "production"}
  /\ Produced

----------------------------------------------------------------------------
(* The call *)

renderStatsCard ==
  /\ pc = "call"
  /\ LET items == StatItems(show, hide, include_all_commits, show_icons)
         n == Len(items)
         lheight == parseInt(line_height)
         iw == iconWidth(show_icons, n)
         minW == minCardWidth(hide_rank, n, show_icons, textWidth)
         w == CardWidth(card_width, hide_rank, n, show_icons, textWidth)
     IN IF ThrowsError(n, hide_rank)
        THEN /\ pc' = "thrown"
             /\ UNCHANGED <<statItems, labels, height, width, keyframes,
                            rankXTranslation2>>
        ELSE /\ pc' = "returned"
             /\ statItems' = items
             /\ labels' = AccessibilityLabels(show, hide, include_all_commits)
             /\ height' = CardHeight(n, lheight, hide_rank)
             /\ width' = w
             /\ keyframes' = ProgressAnimation(NODE_ENV, 100 - percentile)
             /\ rankXTranslation2' =
                  IF hide_rank THEN 0
                  ELSE calculateRankXTranslation2(n, w, iw, minW)
  /\ UNCHANGED inputs

Next == renderStatsCard

Spec == Init /\ [][Next]_vars
SpecWidth == InitWidth /\ [][Next]_vars
SpecHeight == InitHeight /\ [][Next]_vars
SpecRank == InitRank /\ [][Next]_vars

----------------------------------------------------------------------------
(* Properties *)

CanonicalOrder ==
  <<"stars", "commits", "prs", "prs_merged", "prs_merged_percentage", "reviews",
    "issues", "discussions_started", "discussions_answered", "contribs">>

\* The keys that should survive selection: the five fixed keys, plus the
\* optional keys named in show, minus every key named in hide.
ExpectedRowKeys ==
  ({"stars", "commits", "prs", "issues", "contribs"} \cup (show \cap OptionalKeys))
  \ hide

InExpectedRowKeys(k) == k \in ExpectedRowKeys

RowIds == [i \in DOMAIN statItems |-> statItems[i].id]

HasRows == Len(statItems) > 0

\* The icon allowance: 17 when icons are shown and rows exist.
IconAllowance == IF show_icons /\ HasRows THEN 17 ELSE 0

\* The minimum width of the current mode.
ModeMinimum ==
  (IF hide_rank THEN Max(287, 50 + 2 * textWidth)
   ELSE IF HasRows THEN 420
   ELSE 290) + IconAllowance

\* The default width of the current mode.
ModeDefault ==
  (IF hide_rank THEN 287 ELSE IF HasRows THEN 450 ELSE 290) + IconAllowance

\* card_width is a number the code takes as given (zero is falsy in JS).
WidthGiven == card_width.kind = "number" /\ card_width.val # 0

\* C1: the rows are the five fixed keys plus the optional keys in show, minus
\* every key in hide, in the fixed canonical order.
C1_RowsSelectedInCanonicalOrder ==
  pc = "returned" => RowIds = SelectSeq(CanonicalOrder, InExpectedRowKeys)

C1_Witness ==
  /\ pc = "returned"
  /\ {"reviews", "prs_merged"} \subseteq show
  /\ "discussions_started" \notin show
  /\ {"reviews", "stars", "discussions_started"} \subseteq hide
  /\ "prs_merged" \notin hide
  /\ Len(statItems) >= 3

\* C2: the call throws if and only if no row survives selection and hide_rank
\* is true; in every other case it returns.
C2_ThrowsIffNoRowsAndRankHidden ==
  pc # "call" =>
    /\ pc = "thrown" <=> (ExpectedRowKeys = {} /\ hide_rank)
    /\ pc = "returned" <=> ~(ExpectedRowKeys = {} /\ hide_rank)

C2_Witness ==
  /\ pc = "returned"
  /\ ExpectedRowKeys = {}
  /\ ~hide_rank
  /\ card_width = NonNumericString
  /\ percentile > 100

C4_AsStated ==
  pc = "returned" =>
    /\ (card_width.kind = "number" /\ card_width.val >= ModeMinimum)
         => width = card_width.val
    /\ (card_width.kind = "number" /\ card_width.val < ModeMinimum)
         => width = ModeMinimum
    /\ card_width.kind \in {"string", "NaN"} => width = ModeDefault

\* C4, amended: in each mode a non-zero numeric card_width yields the larger of
\* itself and the mode's minimum; a zero, absent or non-numeric card_width
\* yields the mode's default (450, 290, plus the icon allowance), and in the
\* rank-hidden mode the larger of the default 287 and the title-driven minimum.
C4_WidthByMode ==
  pc = "returned" =>
    LET a == IconAllowance
        v == card_width.val
        titleMin == Max(287, 50 + 2 * textWidth)
    IN /\ (~hide_rank /\ HasRows) =>
            width = IF WidthGiven THEN Max(v, 420 + a) ELSE 450 + a
       /\ (~hide_rank /\ ~HasRows) =>
            width = IF WidthGiven THEN Max(v, 290) ELSE 290
       /\ hide_rank =>
            width = IF WidthGiven THEN Max(v, titleMin + a) ELSE titleMin + a

C4_Witness ==
  /\ pc = "returned"
  /\ ~hide_rank
  /\ HasRows
  /\ show_icons
  /\ card_width = Num(0)
  /\ width = 467

\* C5 as stated: the width is card_width when it is numeric and at least the
\* computed minimum, and the computed default in every other case.
C5_AsStated ==
  pc = "returned" =>
    width = IF card_width.kind = "number" /\ card_width.val >= ModeMinimum
            THEN card_width.val
            ELSE ModeDefault

\* C5, amended: the width is card_width when it is numeric, non-zero and at
\* least the computed minimum; the computed minimum when it is numeric, non-zero
\* and below the minimum; and otherwise (absent, zero, non-numeric) the computed
\* default, raised to the computed minimum when the default is below it.
C5_FinalWidth ==
  pc = "returned" =>
    width = IF WidthGiven /\ card_width.val >= ModeMinimum THEN card_width.val
            ELSE IF WidthGiven THEN ModeMinimum
            ELSE Max(ModeDefault, ModeMinimum)

C5_Witness ==
  /\ pc = "returned"
  /\ ~hide_rank
  /\ HasRows
  /\ card_width = Num(1)
  /\ width = ModeMinimum
  /\ width < ModeDefault

Clamp(x, lo, hi) == IF x < lo THEN lo ELSE IF x > hi THEN hi ELSE x

\* The end offset the code computes for another percentile.
EndOffset(q) == calculateCircleProgress(100 - q)

\* C7: for every percentile the end arc offset is
\* ((100 - clamp(100 - percentile, 0, 100)) / 100) * C, lies in [0, C], and is
\* no larger than the end offset of any higher percentile.
C7_ProgressClampedAndMonotone ==
  (pc = "returned" /\ NODE_ENV # "test") =>
    LET C == MathPI1000 * 2 * 40
        to == keyframes[2]
    IN /\ Len(keyframes) = 2
       /\ to = ((100 - Clamp(100 - percentile, 0, 100)) * C) \div 100
       /\ 0 <= to /\ to <= C
       /\ \A q \in Percentiles :
            /\ q <= percentile => EndOffset(q) <= to
            /\ q >= percentile => EndOffset(q) >= to

C7_Witness ==
  /\ pc = "returned"
  /\ NODE_ENV # "test"
  /\ percentile > 100
  /\ keyframes = <<circumference, circumference>>

\* C8: the accessibility description has one entry per visible row, for the
\* same keys in the same order, and its commit entry is year-qualified if and
\* only if include_all_commits is false.
C8_LabelsFollowRows ==
  pc = "returned" =>
    /\ Len(labels) = Len(statItems)
    /\ \A i \in DOMAIN statItems :
         /\ labels[i].text = STATS_i18n(statItems[i].id)
         /\ statItems[i].id = "commits" => (labels[i].year <=> ~include_all_commits)
         /\ statItems[i].id # "commits" => ~labels[i].year

C8_Witness ==
  /\ pc = "returned"
  /\ ~include_all_commits
  /\ "stars" \in hide
  /\ "reviews" \in show \ hide
  /\ Len(labels) >= 2
  /\ labels[1].text = "statcard.commits"
  /\ labels[1].year

C10_StaggerFollowsVisiblePosition ==
  pc = "returned" =>
    \A k \in DOMAIN statItems :
      /\ statItems[k].index = k - 1
      /\ statItems[k].staggerDelay = ((k - 1) + 3) * 150
      /\ k = 1 => statItems[k].staggerDelay = 450
      /\ k > 1 => statItems[k].staggerDelay = statItems[k - 1].staggerDelay + 150

C10_Witness ==
  /\ pc = "returned"
  /\ {"stars", "prs"} \subseteq hide
  /\ "commits" \notin hide
  /\ Len(statItems) >= 3
  /\ statItems[1].id = "commits"
  /\ statItems[2].staggerDelay = 600

====
